---- MODULE Spec2Model ----
(***************************************************************************)
(* Model of dnslib/proxy.py: the proxy resolver (ProxyResolver.resolve),   *)
(* the passthrough handler (PassthroughDNSHandler.get_reply) and the two   *)
(* transport helpers send_tcp / send_udp, one request at a time, against   *)
(* an upstream server that may answer anything, answer in pieces, close    *)
(* the connection early or stay silent.                                    *)
(*                                                                         *)
(* Bytes are numbers 0..255 and a byte string is a sequence of them.       *)
(* The DNS codec (DNSRecord.parse / pack / reply / send) is not part of    *)
(* the two source files; it is modelled from the interface the             *)
(* specification gives for it, over a four-byte header                     *)
(*     <<id, rcode, question, answer count>> followed by the answers.      *)
(***************************************************************************)
EXTENDS Integers, Sequences, FiniteSets, TLC

\* ------------------------------------------------------------------ bounds
\* Largest number of bytes the upstream writes after a complete answer.
MaxExtra == 1
\* recv calls counted per upstream exchange (the counter saturates here).
MaxRecv == 3
\* Largest number of answer records in a message upstream builds.
MaxAnswers == 1

\* ------------------------------------------------- constants of the program
\* sock.recv(8192) / sock.recvfrom(8192)
BufSize == 8192
\* RCODE.NXDOMAIN
NXDOMAIN == 3
NOERROR == 0
\* ProxyResolver.__init__(..., timeout=5)
DefaultTimeout == 5

None == "None"

Min(a, b) == IF a < b THEN a ELSE b

\* s[a..], Python's slice s[a:] (a counted from 0)
SliceFrom(s, a) == IF a >= Len(s) THEN <<>> ELSE SubSeq(s, a + 1, Len(s))
\* s[:b], Python's slice s[:b]
SliceTo(s, b) == SubSeq(s, 1, Min(b, Len(s)))

IsPrefix(p, s) == Len(p) <= Len(s) /\ SubSeq(s, 1, Len(p)) = p

\* ------------------------------------------------------------ struct "!H"
\* struct.pack("!H", n): two bytes, big endian; struct.error outside 0..65535
PackOk(n) == n >= 0 /\ n <= 65535
\* Variant: the low byte comes first.
PackHLittle(n) == <<n % 256, n \div 256>>

PackH(n) == <<n \div 256, n % 256>>
\* struct.unpack("!H", b)[0]: needs exactly two bytes
UnpackOk(b) == Len(b) = 2
UnpackH(b) == b[1] * 256 + b[2]

\* ------------------------------------------------------------------- codec
\* A parsed message; ok = FALSE is the codec's parse error.
ParseError == [ok |-> FALSE, id |-> 0, rcode |-> 0, q |-> 0, rr |-> <<>>]

Msg(id, rcode, q, rr) == [ok |-> TRUE, id |-> id, rcode |-> rcode, q |-> q, rr |-> rr]

\* DNSRecord.pack(): header, question, answers
Pack(m) == <<m.id, m.rcode, m.q, Len(m.rr)>> \o m.rr

\* DNSRecord.parse(bytes): reads the header and as many answers as the header
\* counts; fails on a buffer that ends early, ignores bytes after the last
\* record.
Parse(b) ==
    IF Len(b) < 4 THEN ParseError
    ELSE IF Len(b) < 4 + b[4] THEN ParseError
    ELSE Msg(b[1], b[2], b[3], SubSeq(b, 5, 4 + b[4]))

\* DNSRecord.reply(): a reply header with the request's id, the request's
\* question, no records.
Reply(m) == Msg(m.id, NOERROR, m.q, <<>>)

\* ------------------------------------------------------------------ inputs
Ids == {1, 2}
Questions == {5, 6}
\* Well-formed client queries.
Requests == {Msg(i, NOERROR, q, <<>>) : i \in Ids, q \in Questions}

\* Raw bytes a client may send: packed queries, a query followed by one more
\* byte (which the codec does not reproduce), and two buffers the codec rejects.
ClientData == {Pack(r) : r \in Requests} \cup {<<1, 0, 5, 0, 9>>, <<>>, <<1, 0>>}

RECURSIVE Fill(_, _)
Fill(b, n) == IF n = 0 THEN <<>> ELSE <<b>> \o Fill(b, n - 1)

\* Messages upstream may build: any id, either response code, any question,
\* answer records of one byte (7) each.
UpMessages ==
    {Msg(i, rc, q, Fill(7, n)) :
        i \in Ids, rc \in {NOERROR, NXDOMAIN}, q \in Questions, n \in 0..MaxAnswers}

MaxMsgLen == 4 + MaxAnswers

\* What upstream may write after the length prefix: a message, possibly
\* followed by further bytes (9).
UpPayloads == {Pack(m) \o Fill(9, n) : m \in UpMessages, n \in 0..MaxExtra}

\* Lengths upstream may declare in its prefix (256: more than it ever writes).
UpDeclared == (0..(MaxMsgLen + MaxExtra)) \cup {256}

\* Byte streams upstream may write on a TCP connection before it stops:
\* a prefix and a payload, cut anywhere.
UpStreams ==
    UNION {{SliceTo(PackH(l) \o p, k) : k \in 0..(2 + Len(p))} :
        l \in UpDeclared, p \in UpPayloads}

\* Datagrams upstream may answer with.
UpDatagrams == UNION {{SliceTo(p, k) : k \in 0..Len(p)} : p \in UpPayloads}

\* After its bytes a TCP upstream closes, resets, or holds the connection open.
TcpEnds == {"fin", "reset", "silent"}

\* A small upstream population: two framed answers, a stream that declares
\* one byte and stops, a stream of a single byte.
SmallStreams ==
    {PackH(4) \o <<1, 0, 5, 0>>, PackH(4) \o <<2, 3, 6, 0>>, <<0, 1>>, <<0>>}

SmallDatagrams == {<<1, 0, 5, 0>>, <<2, 3, 6, 0>>, <<>>}

\* ------------------------------------------------------------------- state
VARIABLES
    resolver,   \* ProxyResolver: [address, port, timeout]
    mode,       \* handler of this request: "resolve" | "passthrough"
    protocol,   \* handler.protocol: "udp" | "tcp"
    data,       \* bytes handed to the transport (get_reply's data)
    request,    \* the parsed request
    pc,         \* position of the handler
    sock,       \* the upstream socket of this request
    sent,       \* sequence of the byte strings written to upstream
    wire,       \* all bytes upstream writes for this exchange
    upEnd,      \* what upstream does after them
    response,   \* bytes the transport has received so far / returned
    length,     \* send_tcp's declared length
    nrecv,      \* receive calls made on the socket (saturating)
    got,        \* the transport returned a response to its caller
    fault,      \* transport fault met: "none" | "timeout" | "error"
    result,     \* what the handler gave its caller
    log,        \* log events emitted for this request
    raw,        \* the bytes of the request as the client sent them
    env,        \* the upstream population: "full" | "small"
    cur,        \* the handler thread that is running
    parked,     \* the local state of the handler threads that are not
    bimap,      \* a Bimap object: [name, error, forward, reverse]
    bout        \* outcome of the last Bimap operation

vars == <<resolver, mode, protocol, data, request, pc, sock, sent, wire, upEnd,
          response, length, nrecv, got, fault, result, log, raw, env, cur, parked,
          bimap, bout>>

\* What no step of a handler touches: the scenario, the threads that are not
\* running, the Bimap object.
others == <<env, cur, parked, bimap, bout>>

NoSock == [state |-> "none", kind |-> None, timeout |-> 0, timed |-> FALSE]
\* socket.socket(...): a new socket blocks without limit (no default timeout)
NewSock(kind) == [state |-> "open", kind |-> kind, timeout |-> 0, timed |-> FALSE]
\* sock.settimeout(t)
SetTimeout(s, t) == [s EXCEPT !.timeout = t, !.timed = TRUE]
\* Variant: the socket is left open when the call ends.
CloseLeaks(s) == s

\* leaving the with block / sock.close()
Close(s) == [s EXCEPT !.state = "closed"]

NoResult == [kind |-> "none", msg |-> ParseError, bytes |-> <<>>, exc |-> None]
Returns(m) == [kind |-> "reply", msg |-> m, bytes |-> <<>>, exc |-> None]
ReturnsBytes(b) == [kind |-> "bytes", msg |-> ParseError, bytes |-> b, exc |-> None]
Raises(e) == [kind |-> "raise", msg |-> ParseError, bytes |-> <<>>, exc |-> e]

\* A fresh request as the server hands it to the handler.
Fresh(m, p, d, r) ==
    /\ mode = m
    /\ protocol = p
    /\ data = d
    /\ raw = d
    /\ request = r
    /\ pc = "idle"
    /\ sock = NoSock
    /\ sent = <<>>
    /\ wire = <<>>
    /\ upEnd = "none"
    /\ response = <<>>
    /\ length = 0
    /\ nrecv = 0
    /\ got = FALSE
    /\ fault = "none"
    /\ result = NoResult
    /\ log = <<>>

\* ProxyResolver(args.dns, args.dns_port, args.timeout) with the defaults
Target == [address |-> "8.8.8.8", port |-> 53, timeout |-> DefaultTimeout]

\* The RCODE table resolve looks NXDOMAIN up in.
RcodeBimap ==
    [name |-> "RCODE", error |-> "DNSError",
     forward |-> (0 :> "NOERROR" @@ 3 :> "NXDOMAIN"),
     reverse |-> ("NOERROR" :> 0 @@ "NXDOMAIN" :> 3)]

\* Outcome of a Bimap operation: a text, a code, another object, or a raise.
NoOut ==
    [op |-> "none", argc |-> 0, argt |-> "", kind |-> "none", text |-> "",
     code |-> 0, exc |-> None, before |-> RcodeBimap]

Init ==
    /\ resolver = Target
    /\ env = "full"
    /\ cur = 1
    /\ parked = <<>>
    /\ bimap = RcodeBimap
    /\ bout = NoOut
    /\ \/ \E p \in {"udp", "tcp"}, r \in Requests :
              Fresh("resolve", p, Pack(r), r)
       \/ \E p \in {"udp", "tcp"}, d \in ClientData :
              Fresh("passthrough", p, d, ParseError)

\* -------------------------------------------------------------- upstream
\* What upstream may write in this scenario.
StreamChoices == IF env = "full" THEN UpStreams ELSE SmallStreams
DatagramChoices == IF env = "full" THEN UpDatagrams ELSE SmallDatagrams

\* Bytes of the stream not yet read by the handler.
Pending == SliceFrom(wire, Len(response))

\* The values one sock.recv(8192) may return now: some non-empty part of what
\* has arrived, at most 8192 bytes; b'' once the peer has closed and all was
\* read.  No value: the call blocks.
RecvChunks ==
    IF Pending # <<>>
    THEN {SliceTo(Pending, n) : n \in 1..Min(BufSize, Len(Pending))}
    ELSE IF upEnd = "fin" THEN {<<>>} ELSE {}

CountRecv == nrecv' = Min(nrecv + 1, MaxRecv)

\* The handler ends: the socket (if any) is released and res goes to the caller.
Finish(res) ==
    /\ pc' = "done"
    /\ result' = res
    /\ sock' = IF sock.state = "open" THEN Close(sock) ELSE sock

\* ------------------------------------------- PassthroughDNSHandler.get_reply
\* get_reply after the transport returned: strip upstream's prefix (TCP),
\* parse for the log, return the bytes.
Strip(p, resp) == IF p = "tcp" THEN SliceFrom(resp, 2) ELSE resp

\* Variant: the bytes are returned whether or not the reply was parsed and
\* logged.
GetReplyTailUnlogged(p, resp) == ReturnsBytes(Strip(p, resp))

GetReplyTail(p, resp) ==
    IF Parse(Strip(p, resp)).ok
    THEN ReturnsBytes(Strip(p, resp))
    ELSE Raises("DNSError")

LogTail(p, resp) ==
    IF Parse(Strip(p, resp)).ok THEN Append(log, "reply") ELSE log

\* Variant: the request goes to send_tcp as it came, without a prefix.
FrameNone(d) == d

\* data = struct.pack("!H", len(data)) + data
Frame(d) == PackH(Len(d)) \o d

\* get_reply up to the transport call: parse and log the request, frame it
\* for TCP, open the socket of send_tcp / send_udp.
PtBegin ==
    /\ pc = "idle"
    /\ mode = "passthrough"
    /\ request' = Parse(data)
    /\ IF ~Parse(data).ok
       THEN /\ Finish(Raises("DNSError"))
            /\ UNCHANGED <<data, log>>
       ELSE /\ log' = Append(log, "request")
            /\ IF protocol = "tcp"
               THEN IF PackOk(Len(data))
                    THEN /\ data' = Frame(data)
                         /\ sock' = NewSock("tcp")
                         /\ pc' = "connect"
                         /\ UNCHANGED result
                    ELSE /\ Finish(Raises("struct.error"))
                         /\ UNCHANGED data
               ELSE /\ sock' = NewSock("udp")
                    /\ pc' = "sendto"
                    /\ UNCHANGED <<data, result>>
    /\ UNCHANGED <<others, raw, resolver, mode, protocol, sent, wire, upEnd, response, length,
                   nrecv, got, fault>>

\* ------------------------------------------------------------------ send_tcp
\* sock.connect((host, port)): connects, or the connection is refused.
TcpConnect ==
    /\ pc = "connect"
    /\ \/ /\ pc' = "sendall"
          /\ UNCHANGED <<sock, result, fault>>
       \/ /\ fault' = "error"
          /\ Finish(Raises("OSError"))
    /\ UNCHANGED <<others, raw, resolver, mode, protocol, data, request, sent, wire, upEnd,
                   response, length, nrecv, got, log>>

\* Variant: send_tcp puts a length prefix before the bytes it is given.
TcpSendAllFraming ==
    /\ pc = "sendall"
    /\ sent' = Append(sent, PackH(Len(data)) \o data)
    /\ wire' \in StreamChoices
    /\ upEnd' \in TcpEnds
    /\ pc' = "recv"
    /\ UNCHANGED <<others, raw, resolver, mode, protocol, data, request, sock,
                   response, length, nrecv, got, fault, result, log>>

\* sock.sendall(data); upstream then decides what it will write back.
TcpSendAll ==
    /\ pc = "sendall"
    /\ sent' = Append(sent, data)
    /\ wire' \in StreamChoices
    /\ upEnd' \in TcpEnds
    /\ pc' = "recv"
    /\ UNCHANGED <<others, raw, resolver, mode, protocol, data, request, sock, response, length,
                   nrecv, got, fault, result, log>>

\* response = sock.recv(8192); length = struct.unpack("!H", response[:2])[0]
TcpRecvFirst ==
    /\ pc = "recv"
    /\ \E c \in RecvChunks :
          /\ response' = c
          /\ IF UnpackOk(SliceTo(c, 2))
             THEN /\ length' = UnpackH(SliceTo(c, 2))
                  /\ pc' = "loop"
                  /\ UNCHANGED <<sock, result>>
             ELSE /\ Finish(Raises("struct.error"))
                  /\ UNCHANGED length
    /\ CountRecv
    /\ UNCHANGED <<others, raw, resolver, mode, protocol, data, request, sent, wire, upEnd, got,
                   fault, log>>

\* while len(response) - 2 < length: response += sock.recv(8192)
LoopCond(resp, len) == Len(resp) - 2 < len

TcpLoopRecv ==
    /\ pc = "loop"
    /\ LoopCond(response, length)
    /\ \E c \in RecvChunks : response' = response \o c
    /\ CountRecv
    /\ UNCHANGED <<others, raw, resolver, mode, protocol, data, request, pc, sock, sent, wire,
                   upEnd, length, got, fault, result, log>>

\* The loop ends: send_tcp returns response, get_reply strips the prefix,
\* parses and logs the reply and returns the bytes.
TcpReturn ==
    /\ pc = "loop"
    /\ ~LoopCond(response, length)
    /\ got' = TRUE
    /\ log' = LogTail("tcp", response)
    /\ Finish(GetReplyTail("tcp", response))
    /\ UNCHANGED <<others, raw, resolver, mode, protocol, data, request, sent, wire, upEnd,
                   response, length, nrecv, fault>>

\* A recv on a connection the peer has reset raises ConnectionResetError.
TcpReset ==
    /\ pc \in {"recv", "loop"}
    /\ pc = "loop" => LoopCond(response, length)
    /\ Pending = <<>>
    /\ upEnd = "reset"
    /\ fault' = "error"
    /\ Finish(Raises("OSError"))
    /\ CountRecv
    /\ UNCHANGED <<others, raw, resolver, mode, protocol, data, request, sent, wire, upEnd,
                   response, length, got, log>>

\* ------------------------------------------------------------------ send_udp
\* sock.sendto(data, (host, port)): the datagram leaves, or the send fails
\* (network unreachable).  Upstream answers with one datagram or not at all.
UdpSendTo ==
    /\ pc = "sendto"
    /\ \/ /\ sent' = Append(sent, data)
          /\ \/ wire' \in DatagramChoices /\ upEnd' = "dgram"
             \/ wire' = <<>> /\ upEnd' = "silent"
          /\ pc' = "recvfrom"
          /\ UNCHANGED <<sock, result, fault>>
       \/ /\ fault' = "error"
          /\ Finish(Raises("OSError"))
          /\ UNCHANGED <<sent, wire, upEnd>>
    /\ UNCHANGED <<others, raw, resolver, mode, protocol, data, request, response, length, nrecv,
                   got, log>>

\* response, _ = sock.recvfrom(8192); send_udp returns it and get_reply
\* parses and logs the reply and returns the bytes.
UdpRecvFrom ==
    /\ pc = "recvfrom"
    /\ upEnd = "dgram"
    /\ response' = SliceTo(wire, BufSize)
    /\ CountRecv
    /\ got' = TRUE
    /\ log' = LogTail("udp", response')
    /\ Finish(GetReplyTail("udp", response'))
    /\ UNCHANGED <<others, raw, resolver, mode, protocol, data, request, sent, wire, upEnd,
                   length, fault>>

\* ----------------------------------------------------- ProxyResolver.resolve
\* Variant: a bare except that handles every exception.
CatchesAny(e) == e = e

\* except socket.timeout: the one exception resolve handles
Catches(e) == e = "socket.timeout"

\* Variant: the reply built from the request keeps its default response code.
TimeoutReplyNoRcode(req) == Reply(req)

\* reply = request.reply(); reply.header.rcode = getattr(RCODE, 'NXDOMAIN')
TimeoutReply(req) == [Reply(req) EXCEPT !.rcode = NXDOMAIN]

\* An exception raised inside the try block of resolve.
ResolveExcept(e, req) ==
    IF Catches(e) THEN Returns(TimeoutReply(req)) ELSE Raises(e)

\* Variant: the response code is set after the try statement, on every reply.
ResolveOkSetsRcode(proxy_r) ==
    IF Parse(proxy_r).ok
    THEN Returns([Parse(proxy_r) EXCEPT !.rcode = NXDOMAIN])
    ELSE Raises("DNSError")

\* reply = DNSRecord.parse(proxy_r); return reply
ResolveOk(proxy_r) ==
    IF Parse(proxy_r).ok THEN Returns(Parse(proxy_r)) ELSE Raises("DNSError")

\* Variant: the branches of the protocol test are exchanged.
ResolveTransportSwapped(p) == IF p = "udp" THEN "tcp" ELSE "udp"

\* The transport resolve selects for the protocol the request arrived on.
ResolveTransport(p) == IF p = "udp" THEN "udp" ELSE "tcp"

\* Variant: resolve stores the timeout it used back into the shared resolver.
RsBeginWritesTarget ==
    /\ pc = "idle"
    /\ mode = "resolve"
    /\ data' = IF ResolveTransport(protocol) = "tcp"
               THEN PackH(Len(Pack(request))) \o Pack(request)
               ELSE Pack(request)
    /\ sock' = SetTimeout(NewSock(ResolveTransport(protocol)), resolver.timeout)
    /\ resolver' = [resolver EXCEPT !.timeout = 0]
    /\ pc' = "rsend"
    /\ UNCHANGED <<others, raw, mode, protocol, request, sent, wire, upEnd, response,
                   length, nrecv, got, fault, result, log>>

\* resolve enters request.send(address, port, [tcp=True,] timeout=timeout):
\* the request is serialised (framed for TCP) and a socket with the
\* resolver's timeout is opened.
RsBegin ==
    /\ pc = "idle"
    /\ mode = "resolve"
    /\ data' = IF ResolveTransport(protocol) = "tcp"
               THEN PackH(Len(Pack(request))) \o Pack(request)
               ELSE Pack(request)
    /\ sock' = SetTimeout(NewSock(ResolveTransport(protocol)), resolver.timeout)
    /\ pc' = "rsend"
    /\ UNCHANGED <<others, raw, resolver, mode, protocol, request, sent, wire, upEnd, response,
                   length, nrecv, got, fault, result, log>>

\* request.send writes the request, or the transport fails (connection
\* refused, network unreachable).
RsSend ==
    /\ pc = "rsend"
    /\ \/ /\ sent' = Append(sent, data)
          /\ \/ /\ sock.kind = "tcp"
                /\ wire' \in StreamChoices
                /\ upEnd' \in TcpEnds
             \/ /\ sock.kind = "udp"
                /\ \/ wire' \in DatagramChoices /\ upEnd' = "dgram"
                   \/ wire' = <<>> /\ upEnd' = "silent"
          /\ pc' = "rwait"
          /\ UNCHANGED <<sock, result, fault>>
       \/ /\ fault' = "error"
          /\ Finish(ResolveExcept("OSError", request))
          /\ UNCHANGED <<sent, wire, upEnd>>
    /\ UNCHANGED <<others, raw, resolver, mode, protocol, data, request, response, length, nrecv,
                   got, log>>

\* The complete responses request.send may return now: the datagram, or for
\* TCP the bytes after the prefix once at least the declared length arrived.
SendReturns ==
    IF sock.kind = "udp"
    THEN IF upEnd = "dgram" THEN {SliceTo(wire, BufSize)} ELSE {}
    ELSE IF Len(wire) >= 2 /\ Len(wire) >= 2 + UnpackH(SliceTo(wire, 2))
         THEN {SubSeq(wire, 3, k) : k \in (2 + UnpackH(SliceTo(wire, 2)))..Len(wire)}
         ELSE {}

\* request.send returns upstream's bytes; resolve parses and returns them.
RsRecv ==
    /\ pc = "rwait"
    /\ \E proxy_r \in SendReturns :
          /\ response' = proxy_r
          /\ Finish(ResolveOk(proxy_r))
    /\ got' = TRUE
    /\ CountRecv
    /\ UNCHANGED <<others, raw, resolver, mode, protocol, data, request, sent, wire, upEnd,
                   length, fault, log>>

\* The connection ends before the declared length arrived: request.send
\* fails with a transport error.
RsFail ==
    /\ pc = "rwait"
    /\ sock.kind = "tcp"
    /\ upEnd \in {"fin", "reset"}
    /\ SendReturns = {}
    /\ fault' = "error"
    /\ Finish(ResolveExcept("OSError", request))
    /\ UNCHANGED <<others, raw, resolver, mode, protocol, data, request, sent, wire, upEnd,
                   response, length, nrecv, got, log>>

\* -------------------------------------------------------------------- socket
\* A blocking call on a socket that has a timeout raises socket.timeout when
\* the time is up; a socket without one never does.
Blocking == {"connect", "recv", "loop", "recvfrom", "rwait"}

\* Variant: after a timeout the request is sent again.
SockTimeoutRetries ==
    /\ pc \in Blocking
    /\ sock.state = "open"
    /\ sock.timed
    /\ fault' = "timeout"
    /\ pc' = "rsend"
    /\ UNCHANGED <<others, raw, resolver, mode, protocol, data, request, sock, sent,
                   wire, upEnd, response, length, nrecv, got, result, log>>

SockTimeout ==
    /\ pc \in Blocking
    /\ sock.state = "open"
    /\ sock.timed
    /\ fault' = "timeout"
    /\ Finish(IF mode = "resolve"
              THEN ResolveExcept("socket.timeout", request)
              ELSE Raises("socket.timeout"))
    /\ UNCHANGED <<others, raw, resolver, mode, protocol, data, request, sent, wire, upEnd,
                   response, length, nrecv, got, log>>

\* -------------------------------------------------------------------- server
\* The server hands the next request to the handler.
NextRequest ==
    /\ pc = "done"
    /\ \/ \E p \in {"udp", "tcp"}, r \in Requests :
              /\ mode' = "resolve"
              /\ protocol' = p
              /\ data' = Pack(r)
              /\ request' = r
       \/ \E p \in {"udp", "tcp"}, d \in ClientData :
              /\ mode' = "passthrough"
              /\ protocol' = p
              /\ data' = d
              /\ request' = ParseError
    /\ pc' = "idle"
    /\ sock' = NoSock
    /\ sent' = <<>>
    /\ wire' = <<>>
    /\ upEnd' = "none"
    /\ response' = <<>>
    /\ length' = 0
    /\ nrecv' = 0
    /\ got' = FALSE
    /\ fault' = "none"
    /\ result' = NoResult
    /\ log' = <<>>
    /\ raw' = data'
    /\ UNCHANGED <<others, resolver>>

Next ==
    \/ PtBegin
    \/ TcpConnect
    \/ TcpSendAll
    \/ TcpRecvFirst
    \/ TcpLoopRecv
    \/ TcpReturn
    \/ TcpReset
    \/ UdpSendTo
    \/ UdpRecvFrom
    \/ RsBegin
    \/ RsSend
    \/ RsRecv
    \/ RsFail
    \/ SockTimeout
    \/ NextRequest

Spec == Init /\ [][Next]_vars

TypeOK ==
    /\ mode \in {"resolve", "passthrough"}
    /\ protocol \in {"udp", "tcp"}
    /\ pc \in {"idle", "connect", "sendall", "recv", "loop", "sendto", "recvfrom",
               "rsend", "rwait", "done"}
    /\ fault \in {"none", "timeout", "error"}
    /\ nrecv \in 0..MaxRecv
    /\ got \in BOOLEAN
    /\ Len(sent) <= 1

\* ================================================================ concurrency
\* The server runs one handler thread per request (ThreadingMixIn); the
\* threads share the resolver object and nothing else.  The variables of a
\* request are the locals of the thread that is running; those of the other
\* threads are kept in parked until the scheduler switches to them.
Handlers == {1, 2}

\* The request handler h works on.
RequestOf(h) == Msg(h, NOERROR, 4 + h, <<>>)

\* The locals of the running thread.
Locals ==
    [mode |-> mode, protocol |-> protocol, data |-> data, raw |-> raw,
     request |-> request, pc |-> pc, sock |-> sock, sent |-> sent,
     wire |-> wire, upEnd |-> upEnd, response |-> response, length |-> length,
     nrecv |-> nrecv, got |-> got, fault |-> fault, result |-> result,
     log |-> log]

\* The locals of a thread that has not started on its request.
FreshLocals(m, p, h) ==
    [mode |-> m, protocol |-> p, data |-> Pack(RequestOf(h)),
     raw |-> Pack(RequestOf(h)),
     request |-> IF m = "resolve" THEN RequestOf(h) ELSE ParseError,
     pc |-> "idle", sock |-> NoSock, sent |-> <<>>, wire |-> <<>>,
     upEnd |-> "none", response |-> <<>>, length |-> 0, nrecv |-> 0,
     got |-> FALSE, fault |-> "none", result |-> NoResult, log |-> <<>>]

\* The scheduler suspends the running thread and resumes another one.
Switch ==
    /\ \E i \in DOMAIN parked :
          /\ mode' = parked[i].locals.mode
          /\ protocol' = parked[i].locals.protocol
          /\ data' = parked[i].locals.data
          /\ raw' = parked[i].locals.raw
          /\ request' = parked[i].locals.request
          /\ pc' = parked[i].locals.pc
          /\ sock' = parked[i].locals.sock
          /\ sent' = parked[i].locals.sent
          /\ wire' = parked[i].locals.wire
          /\ upEnd' = parked[i].locals.upEnd
          /\ response' = parked[i].locals.response
          /\ length' = parked[i].locals.length
          /\ nrecv' = parked[i].locals.nrecv
          /\ got' = parked[i].locals.got
          /\ fault' = parked[i].locals.fault
          /\ result' = parked[i].locals.result
          /\ log' = parked[i].locals.log
          /\ cur' = parked[i].id
          /\ parked' = [parked EXCEPT ![i] = [id |-> cur, locals |-> Locals]]
    /\ UNCHANGED <<resolver, env, bimap, bout>>

\* Two requests arrive together: one thread each, none started.
ConcInit ==
    /\ resolver = Target
    /\ env = "small"
    /\ cur = 1
    /\ bimap = RcodeBimap
    /\ bout = NoOut
    /\ \E m \in {"resolve", "passthrough"}, p \in {"udp", "tcp"} :
          Fresh(m, p, Pack(RequestOf(1)),
                IF m = "resolve" THEN RequestOf(1) ELSE ParseError)
    /\ \E m \in {"resolve", "passthrough"}, p \in {"udp", "tcp"} :
          parked = <<[id |-> 2, locals |-> FreshLocals(m, p, 2)]>>

ConcNext ==
    \/ PtBegin
    \/ TcpConnect
    \/ TcpSendAll
    \/ TcpRecvFirst
    \/ TcpLoopRecv
    \/ TcpReturn
    \/ TcpReset
    \/ UdpSendTo
    \/ UdpRecvFrom
    \/ RsBegin
    \/ RsSend
    \/ RsRecv
    \/ RsFail
    \/ SockTimeout
    \/ Switch

ConcSpec == ConcInit /\ [][ConcNext]_vars

\* ============================================================= long requests
\* Lengths of client messages around the byte boundaries of the prefix.
LongLens == {4, 255, 256, 65535, 65536}

\* A query followed by padding up to n bytes.
Padded(n) == <<1, 0, 5, 0>> \o [i \in 1..(n - 4) |-> 0]

LongData == {Padded(n) : n \in LongLens}

\* The passthrough handler is given one request of one of these lengths.
FrameInit ==
    /\ resolver = Target
    /\ env = "small"
    /\ cur = 1
    /\ parked = <<>>
    /\ bimap = RcodeBimap
    /\ bout = NoOut
    /\ \E p \in {"udp", "tcp"}, d \in LongData :
          Fresh("passthrough", p, d, ParseError)

FrameNext ==
    \/ PtBegin
    \/ TcpConnect
    \/ TcpSendAll
    \/ TcpRecvFirst
    \/ TcpLoopRecv
    \/ TcpReturn
    \/ TcpReset
    \/ UdpSendTo
    \/ UdpRecvFrom

FrameSpec == FrameInit /\ [][FrameNext]_vars

\* ====================================================================== Bimap
\* Bound: entries of the dict a Bimap is built from.
MaxItems == 2

Codes == {1, 2, 3}
Texts == {"A", "B", "name"}
\* Codes and texts looked up: the mapped ones and some that no dict maps.
LookupCodes == Codes \cup {99}
LookupTexts == Texts \cup {"X", "get"}
ErrorTypes == {"KeyError", "TestError"}
\* Values of get's default parameter ("None": not given).
Defaults == {None, "", "dflt"}

\* A dict {code: text} in insertion order: pairs with distinct codes.
Dicts ==
    {d \in UNION {[1..n -> Codes \X Texts] : n \in 0..MaxItems} :
        \A i, j \in DOMAIN d : d[i][1] = d[j][1] => i = j}

\* self.forward = forward.copy()
ForwardOf(d) ==
    [k \in {d[i][1] : i \in DOMAIN d} |->
        d[CHOOSE i \in DOMAIN d : d[i][1] = k][2]]

\* self.reverse = {v: k for k, v in forward.items()}: a later entry replaces
\* an earlier one with the same text.
ReverseOf(d) ==
    [t \in {d[i][2] : i \in DOMAIN d} |->
        d[CHOOSE i \in DOMAIN d :
              d[i][2] = t /\ \A j \in DOMAIN d : d[j][2] = t => j <= i][1]]

\* Bimap.__init__(name, forward, error)
BimapNew(name, d, error) ==
    [name |-> name, error |-> error, forward |-> ForwardOf(d),
     reverse |-> ReverseOf(d)]

Out(kind, text, code, exc) == [kind |-> kind, text |-> text, code |-> code, exc |-> exc]
RetText(t) == Out("text", t, 0, None)
RetCode(k) == Out("code", "", k, None)
RetObject(a) == Out("object", a, 0, None)
RaisesError(e) == Out("raise", "", 0, e)

\* default or str(k)
OrStr(dflt, k) == IF dflt = None \/ dflt = "" THEN ToString(k) ELSE dflt

\* Bimap.get(k, default): self.forward.get(k, default or str(k))
BimapGet(b, k, dflt) ==
    IF k \in DOMAIN b.forward THEN RetText(b.forward[k]) ELSE RetText(OrStr(dflt, k))

\* Variant: the KeyError of the dict is not translated.
BimapGetItemKeyError(b, k) ==
    IF k \in DOMAIN b.forward THEN RetText(b.forward[k]) ELSE RaisesError("KeyError")

\* Bimap.__getitem__(k)
BimapGetItem(b, k) ==
    IF k \in DOMAIN b.forward THEN RetText(b.forward[k]) ELSE RaisesError(b.error)

\* Attributes an instance has without __getattr__: those __init__ sets and
\* the method get (and, outside this model, those of object).
OwnAttrs == {"name", "error", "forward", "reverse", "get"}

\* Variant: the reverse lookup searches the forward dict, which has no text
\* among its keys.
BimapGetAttrForward(b, t) == RaisesError(b.error)

\* Bimap.__getattr__(k): the reverse lookup
BimapGetAttr(b, t) ==
    IF t \in DOMAIN b.reverse THEN RetCode(b.reverse[t]) ELSE RaisesError(b.error)

\* bimap.<t>: Python finds an attribute of the instance or its class first
\* and calls __getattr__ only when there is none.
BimapAttr(b, t) ==
    IF t = "name" THEN RetText(b.name)
    ELSE IF t \in OwnAttrs THEN RetObject(t)
    ELSE BimapGetAttr(b, t)

\* The state of the proxy, which no Bimap operation touches.
pvars == <<resolver, mode, protocol, data, request, pc, sock, sent, wire, upEnd,
           response, length, nrecv, got, fault, result, log, raw, env, cur, parked>>

Called(op, k, t, out) ==
    [op |-> op, argc |-> k, argt |-> t, kind |-> out.kind, text |-> out.text,
     code |-> out.code, exc |-> out.exc, before |-> bimap]

\* bimap.get(k) / bimap.get(k, default)
DoGet ==
    /\ \E k \in LookupCodes, dflt \in Defaults :
          bout' = Called("get", k, dflt, BimapGet(bimap, k, dflt))
    /\ UNCHANGED <<bimap, pvars>>

\* bimap[k]
DoGetItem ==
    /\ \E k \in LookupCodes : bout' = Called("getitem", k, "", BimapGetItem(bimap, k))
    /\ UNCHANGED <<bimap, pvars>>

\* bimap.<t>
DoAttr ==
    /\ \E t \in LookupTexts : bout' = Called("attr", 0, t, BimapAttr(bimap, t))
    /\ UNCHANGED <<bimap, pvars>>

\* bimap[x] for the outcome x of an earlier lookup: a code is looked up, any
\* other value is no key of the forward dict.
BimapItemOf(b, x) ==
    IF x.kind = "code" THEN BimapGetItem(b, x.code) ELSE RaisesError(b.error)

\* bimap.<x> for the outcome x of an earlier lookup.
BimapAttrOf(b, x) ==
    IF x.kind = "text" THEN BimapAttr(b, x.text) ELSE RaisesError(b.error)

\* bimap.<bimap[k]> for a mapped code k
DoForwardBack ==
    /\ \E k \in DOMAIN bimap.forward :
          bout' = Called("fwdback", k, bimap.forward[k],
                         BimapAttrOf(bimap, BimapGetItem(bimap, k)))
    /\ UNCHANGED <<bimap, pvars>>

\* bimap[bimap.<t>] for a mapped text t
DoBackForward ==
    /\ \E t \in DOMAIN bimap.reverse :
          bout' = Called("backfwd", bimap.reverse[t], t,
                         BimapItemOf(bimap, BimapAttr(bimap, t)))
    /\ UNCHANGED <<bimap, pvars>>

BimapInit ==
    /\ resolver = Target
    /\ env = "small"
    /\ cur = 1
    /\ parked = <<>>
    /\ Fresh("resolve", "udp", Pack(Msg(1, NOERROR, 5, <<>>)), Msg(1, NOERROR, 5, <<>>))
    /\ \E d \in Dicts, e \in ErrorTypes : bimap = BimapNew("TEST", d, e)
    /\ bout = NoOut

BimapNext ==
    \/ DoGet
    \/ DoGetItem
    \/ DoAttr
    \/ DoForwardBack
    \/ DoBackForward

BimapSpec == BimapInit /\ [][BimapNext]_vars

\* ==================================================================== claims

\* C1: every reply resolve returns, parsed from upstream's bytes or
\* synthesized after a timeout, carries the transaction id of the request.
C1_ReplyHasRequestId ==
    (mode = "resolve" /\ result.kind = "reply") => result.msg.id = request.id

\* C2: when the upstream round trip times out, resolve does not raise: it
\* returns a reply with response code NXDOMAIN, the id and the question of the
\* request, and no answer records.
C2_TimeoutGivesNxdomain ==
    (mode = "resolve" /\ fault = "timeout") =>
        /\ pc = "done"
        /\ result = Returns(Msg(request.id, NXDOMAIN, request.q, <<>>))

C2_Witness ==
    /\ mode = "resolve"
    /\ fault = "timeout"
    /\ pc = "done"
    /\ result.kind = "reply"
    /\ Len(sent) = 1

\* C3: when the upstream round trip fails with a transport failure other
\* than a timeout, resolve raises that error to its caller and returns no
\* reply, synthesized or other.
C3_TransportErrorPropagates ==
    (mode = "resolve" /\ fault = "error") =>
        /\ pc = "done"
        /\ result = Raises("OSError")

C3_Witness ==
    /\ mode = "resolve"
    /\ fault = "error"
    /\ pc = "done"
    /\ result.kind = "raise"
    /\ Len(sent) = 1

\* The bytes b are what upstream sent for this request: the datagram, or the
\* bytes that follow the prefix on the stream.
FromUpstream(b) ==
    IF protocol = "udp" THEN b = wire ELSE IsPrefix(b, SliceFrom(wire, 2))

\* C4: when upstream answers within the timeout, the message resolve returns
\* is the parsed form of the bytes upstream sent, every field as parsed.
C4_ReplyIsParsedUpstreamBytes ==
    (mode = "resolve" /\ got /\ result.kind = "reply") =>
        /\ fault = "none"
        /\ FromUpstream(response)
        /\ Parse(response).ok
        /\ result.msg = Parse(response)

C4_Witness ==
    /\ mode = "resolve"
    /\ got
    /\ pc = "done"
    /\ result.kind = "reply"
    /\ result.msg.rcode = NOERROR
    /\ Len(result.msg.rr) > 0

\* The one message upstream sent: the datagram, or the declared-length payload
\* that follows the prefix.
UpstreamMessage ==
    IF protocol = "udp" THEN wire
    ELSE SubSeq(wire, 3, 2 + UnpackH(SliceTo(wire, 2)))

\* C5: the bytes get_reply returns are the one message upstream sent: the
\* whole datagram (UDP), the declared-length payload without its prefix
\* (TCP), never cut short and never followed by bytes read past the declared
\* length.
C5_PassthroughReturnsExactMessage ==
    (mode = "passthrough" /\ result.kind = "bytes") =>
        /\ protocol = "tcp" => Len(wire) >= 2
        /\ result.bytes = UpstreamMessage

\* C6: when the client's bytes do not parse, get_reply still forwards them to
\* upstream (and returns upstream's response).
C6_UnparsableRequestForwarded ==
    (mode = "passthrough" /\ pc = "done" /\ ~request.ok /\ fault = "none") =>
        Len(sent) = 1

\* C7: when the bytes received from upstream do not parse, get_reply still
\* returns them to the client.
C7_UnparsableResponseReturned ==
    (/\ mode = "passthrough"
     /\ pc = "done"
     /\ got
     /\ ~Parse(Strip(protocol, response)).ok) =>
        result = ReturnsBytes(Strip(protocol, response))

\* The stream is one framed message: a prefix and exactly the declared bytes.
WellFramed(w) == Len(w) >= 2 /\ Len(w) = 2 + UnpackH(SliceTo(w, 2))

\* C8: for every framed upstream response and every way it is delivered in
\* non-empty partial reads, send_tcp returns the complete response, prefix
\* and payload.
C8_SendTcpReassembles ==
    (/\ mode = "passthrough"
     /\ protocol = "tcp"
     /\ pc = "done"
     /\ Len(sent) = 1
     /\ WellFramed(wire)) =>
        /\ got
        /\ response = wire

\* The connection closed before 2 + declared length bytes were delivered and
\* send_tcp has read all there was.
EarlyClosed ==
    /\ mode = "passthrough"
    /\ pc \in {"recv", "loop"}
    /\ upEnd = "fin"
    /\ Pending = <<>>
    /\ pc = "loop" => LoopCond(response, length)

\* C9: after an early close send_tcp ends with an error; it does not keep
\* reading: each step it takes from there either ends the call with an error
\* or changes what it has buffered.
C9_EarlyCloseEndsCall ==
    [][EarlyClosed =>
          \/ pc' = "done" /\ result'.kind = "raise"
          \/ <<response', length'>> # <<response, length>>]_vars

\* The transport helper waits in a receive for an upstream that sends nothing.
WaitsOnSilentUpstream ==
    /\ mode = "passthrough"
    /\ pc \in {"recv", "loop", "recvfrom"}
    /\ upEnd = "silent"
    /\ Pending = <<>>
    /\ pc = "loop" => LoopCond(response, length)

\* C10: a helper call waiting on a silent upstream ends (with a timeout): the
\* handler is never left with no step to take.
C10_SilentUpstreamTimesOut ==
    WaitsOnSilentUpstream => ENABLED Next

\* C11: for a passthrough request that arrived over TCP with raw bytes m, the
\* bytes written to the upstream connection are uint16_be(len(m)) || m: one
\* prefix and the raw bytes, not a re-encoded message.
C11_TcpRequestFramedOnce ==
    (mode = "passthrough" /\ protocol = "tcp" /\ sent # <<>>) =>
        sent = <<PackH(Len(raw)) \o raw>>

C11_Witness ==
    /\ mode = "passthrough"
    /\ protocol = "tcp"
    /\ Len(sent) = 1
    /\ Pack(Parse(raw)) # raw
    /\ pc = "done"

\* Positions inside send_tcp / send_udp.
InHelper == {"connect", "sendall", "recv", "loop", "sendto", "recvfrom"}

\* C12: a call of send_udp or send_tcp has one socket of its own, open while
\* the call runs and closed on every way out of it, a raise from connect, send
\* or receive included; after a completed call no upstream socket is open.
C12_HelperSocketReleased ==
    mode = "passthrough" =>
        /\ pc = "idle" => sock.state = "none"
        /\ pc \in InHelper => sock.state = "open" /\ sock.kind = protocol
        /\ pc = "done" => sock.state \in {"none", "closed"}
        /\ (pc = "done" /\ (sent # <<>> \/ fault # "none")) => sock.state = "closed"

C12_Witness ==
    /\ mode = "passthrough"
    /\ pc = "done"
    /\ result.kind = "raise"
    /\ fault = "error"
    /\ nrecv > 0
    /\ sock.state = "closed"

\* C13 as first stated: a forward lookup of an unmapped code and a reverse
\* lookup bimap.<text> of an unmapped text each raise the Bimap's error type
\* and leave both maps unchanged; get of an unmapped code returns str(code).
C13_UnmappedLookups ==
    /\ (bout.op = "getitem" /\ bout.argc \notin DOMAIN bimap.forward) =>
          bout.kind = "raise" /\ bout.exc = bimap.error
    /\ (bout.op = "attr" /\ bout.argt \notin DOMAIN bimap.reverse) =>
          bout.kind = "raise" /\ bout.exc = bimap.error
    /\ (bout.op = "get" /\ bout.argt = None /\ bout.argc \notin DOMAIN bimap.forward) =>
          bout.kind = "text" /\ bout.text = ToString(bout.argc)
    /\ bout.op # "none" => bimap = bout.before

\* C13 (amended): as above, for a reverse lookup of a text that is not
\* mapped and is not the name of an attribute the object has by itself.
C13_UnmappedLookupsAmended ==
    /\ (bout.op = "getitem" /\ bout.argc \notin DOMAIN bimap.forward) =>
          bout.kind = "raise" /\ bout.exc = bimap.error
    /\ (/\ bout.op = "attr"
        /\ bout.argt \notin DOMAIN bimap.reverse
        /\ bout.argt \notin OwnAttrs) =>
          bout.kind = "raise" /\ bout.exc = bimap.error
    /\ (bout.op = "get" /\ bout.argt = None /\ bout.argc \notin DOMAIN bimap.forward) =>
          bout.kind = "text" /\ bout.text = ToString(bout.argc)
    /\ bout.op # "none" => bimap = bout.before

C13_Witness ==
    /\ bout.op = "getitem"
    /\ bout.argc \notin DOMAIN bimap.forward
    /\ bimap.error = "TestError"
    /\ DOMAIN bimap.forward # {}
    /\ bout.kind = "raise"

\* C14: a request is forwarded on the transport it arrived on, by resolve
\* and by get_reply alike: the upstream socket of a UDP request is a UDP
\* socket, that of a TCP request a TCP socket.
C14_TransportMirrored ==
    /\ sock.state # "none" => sock.kind = protocol
    /\ sent # <<>> => sock.state # "none" /\ sock.kind = protocol

C14_Witness ==
    /\ mode = "resolve"
    /\ protocol = "tcp"
    /\ got
    /\ Len(sent) = 1
    /\ sock.kind = "tcp"

\* C15: a request is sent to upstream at most once; a timeout or a transport
\* error ends the request without another attempt; a reply or bytes returned
\* come from the one exchange of this request (or are the timeout reply).
C15_SingleRoundTrip ==
    /\ Len(sent) <= 1
    /\ fault # "none" => pc = "done"
    /\ result.kind \in {"reply", "bytes"} =>
          Len(sent) = 1 /\ (got \/ fault = "timeout")
    /\ pc = "idle" => sent = <<>> /\ response = <<>> /\ result = NoResult

C15_Witness ==
    /\ mode = "passthrough"
    /\ pc = "done"
    /\ fault = "error"
    /\ Len(sent) = 1
    /\ result.kind = "raise"

\* What handler h, with locals l, has sent and what it returns: its own
\* request, and a result made of the bytes read from its own exchange (or the
\* timeout reply to its own request).
OwnExchange(h, l) ==
    /\ l.raw = Pack(RequestOf(h))
    /\ l.sock.state = "none" => l.sent = <<>> /\ l.wire = <<>>
    /\ l.sent # <<>> =>
          /\ l.sock.state # "none"
          /\ l.sent = <<IF l.protocol = "tcp" THEN PackH(Len(l.raw)) \o l.raw
                        ELSE l.raw>>
    /\ l.got =>
          /\ l.sent # <<>>
          /\ IF l.mode = "resolve" /\ l.protocol = "tcp"
             THEN IsPrefix(l.response, SliceFrom(l.wire, 2))
             ELSE IsPrefix(l.response, l.wire)
    /\ l.result.kind = "reply" =>
          IF l.got THEN l.result.msg = Parse(l.response)
          ELSE l.fault = "timeout" /\ l.result.msg = TimeoutReply(RequestOf(h))
    /\ l.result.kind = "bytes" =>
          l.got /\ l.result.bytes = Strip(l.protocol, l.response)

\* C16: under any interleaving of two handler threads each thread has its
\* own socket and exchange, its result is made only from its own request and
\* the bytes of its own exchange, and the shared upstream target keeps the
\* values set at construction.
C16_HandlersIsolated ==
    /\ resolver = Target
    /\ OwnExchange(cur, Locals)
    /\ \A i \in DOMAIN parked :
          /\ parked[i].id # cur
          /\ OwnExchange(parked[i].id, parked[i].locals)

C16_Witness ==
    /\ Len(parked) = 1
    /\ mode = "resolve"
    /\ result.kind = "reply"
    /\ got
    /\ parked[1].locals.mode = "resolve"
    /\ parked[1].locals.pc = "rwait"
    /\ parked[1].locals.sock.state = "open"
    /\ parked[1].locals.wire # wire

\* C17: within a passthrough request the request is logged before anything
\* is sent, the reply is logged only after the complete response was
\* received, and bytes are returned only after that; nothing received means
\* no reply log event and no bytes returned.
C17_PassthroughSequential ==
    mode = "passthrough" =>
        /\ sent # <<>> => (log # <<>> /\ log[1] = "request")
        /\ (\E i \in DOMAIN log : log[i] = "reply") =>
              /\ got
              /\ log = <<"request", "reply">>
        /\ result.kind = "bytes" => (got /\ log = <<"request", "reply">>)
        /\ (got /\ protocol = "tcp") => ~LoopCond(response, length)
        /\ ~got => (log \in {<<>>, <<"request">>} /\ result.kind # "bytes")

C17_Witness ==
    /\ mode = "passthrough"
    /\ protocol = "tcp"
    /\ result.kind = "bytes"
    /\ nrecv >= 2
    /\ log = <<"request", "reply">>

\* C18 as first stated: send_tcp itself writes a 2-byte length prefix
\* followed by the bytes it is given.
C18_SendTcpWritesPrefix ==
    (mode = "passthrough" /\ protocol = "tcp" /\ sent # <<>>) =>
        sent = <<PackH(Len(data)) \o data>>

\* C18 (amended): send_tcp writes the bytes it is given as they are, adding
\* no prefix; the message is framed by its caller.
C18_SendTcpWritesArgument ==
    (mode = "passthrough" /\ protocol = "tcp" /\ sent # <<>>) => sent = <<data>>

C18_Witness ==
    /\ mode = "passthrough"
    /\ protocol = "tcp"
    /\ pc = "recv"
    /\ Len(sent) = 1

\* C19 as first stated: for every code k of the forward dict the reverse
\* lookup of bimap[k] returns k, and for every text t of the reverse map
\* bimap[bimap.<t>] is t, also when two codes map to the same text.
C19_RoundTrip ==
    /\ bout.op = "fwdback" => bout.kind = "code" /\ bout.code = bout.argc
    /\ bout.op = "backfwd" => bout.kind = "text" /\ bout.text = bout.argt

\* The text has one code only, and is not an attribute the object has by itself.
SoleCode(b, k) ==
    /\ \A j \in DOMAIN b.forward : b.forward[j] = b.forward[k] => j = k
    /\ b.forward[k] \notin OwnAttrs

\* C19 (amended): the reverse lookup of bimap[k] returns k for every code k
\* whose text no other code has, and bimap[bimap.<t>] is t for every text t of
\* the reverse map, texts that name an attribute of the object excepted.
C19_RoundTripAmended ==
    /\ (bout.op = "fwdback" /\ SoleCode(bimap, bout.argc)) =>
          bout.kind = "code" /\ bout.code = bout.argc
    /\ (bout.op = "backfwd" /\ bout.argt \notin OwnAttrs) =>
          bout.kind = "text" /\ bout.text = bout.argt

C19_Witness ==
    /\ bout.op = "backfwd"
    /\ bout.argt \notin OwnAttrs
    /\ \E j, k \in DOMAIN bimap.forward : j # k /\ bimap.forward[j] = bimap.forward[k]
    /\ bout.kind = "text"


\* C20: the prefix get_reply builds for a TCP request never wraps: a message
\* longer than 65535 bytes makes get_reply fail with struct.error before a
\* socket is opened or a byte is sent; for every shorter message the two
\* prefix bytes are bytes and their big-endian value is the message length.
C20_PrefixNeverWraps ==
    (mode = "passthrough" /\ protocol = "tcp" /\ request.ok) =>
        IF Len(raw) > 65535
        THEN /\ pc = "done"
             /\ result = Raises("struct.error")
             /\ sock = NoSock
             /\ sent = <<>>
        ELSE /\ Len(data) = Len(raw) + 2
             /\ data[1] \in 0..255
             /\ data[2] \in 0..255
             /\ UnpackH(SliceTo(data, 2)) = Len(raw)
             /\ sent # <<>> => UnpackH(SliceTo(sent[1], 2)) = Len(raw)

C20_Witness ==
    /\ mode = "passthrough"
    /\ protocol = "tcp"
    /\ request.ok
    /\ Len(raw) = 65536
    /\ pc = "done"
    /\ result.exc = "struct.error"
    /\ sent = <<>>

====
